---- MODULE Spec2Model ----
(***************************************************************************)
(* A model of enaml's BlockCompiler (src/enaml/core/block_compiler.py):    *)
(* the visitors that lower a declarative AST into a linear instruction     *)
(* stream, the four scope stacks and the variable pool they use, and the   *)
(* execution of the emitted stream on a small stack machine.               *)
(*                                                                         *)
(* The AST is the compiler's input.  It is revealed node by node as the    *)
(* visitors read it (`ast` records the nodes read so far, in source        *)
(* order); each visitor is split at its recursive `self.visit(...)` calls  *)
(* so that the states between the calls are visible.                       *)
(***************************************************************************)
EXTENDS Integers, Sequences, FiniteSets, TLC

(* ------------------------------ bounds -------------------------------- *)

\* The number of body-level AST nodes (ChildDef, StorageExpr, Binding) of a
\* block, the root ChildDef included.
MaxNodes == 3

(* --------------------------- values and ops --------------------------- *)

\* Every value the emitter or the machine handles: a tag, a text, a number.
Val(k, v, n) == [k |-> k, v |-> v, n |-> n]

\* Python's None where the AST has a string field (an identifier).
None == "<None>"

\* The absent `expr` of a StorageExpr (node.expr is None).
NoExpr == [type |-> "None"]

NoneV == Val("None", "", 0)
StrV(s) == Val("str", s, 0)
BoolV(b) == Val("bool", IF b THEN "True" ELSE "False", 0)
ConstV(x) == IF x = None THEN NoneV ELSE StrV(x)

\* One instruction of the stream: an opcode and one argument.
Ins(op, arg) == [op |-> op, arg |-> arg]

LOAD_FAST(name) == Ins("load_fast", StrV(name))
STORE_FAST(name) == Ins("store_fast", StrV(name))
LOAD_CONST(v) == Ins("load_const", v)
LOAD_GLOBAL(name) == Ins("load_global", StrV(name))
LOAD_NAME(name) == Ins("load_name", StrV(name))
LOAD_ATTR(name) == Ins("load_attr", StrV(name))
STORE_ATTR(name) == Ins("store_attr", StrV(name))
LOAD_HELPER(name) == Ins("load_helper_from_fast", StrV(name))
CALL_FUNCTION(n) == Ins("call_function", Val("int", "", n))
BUILD_TUPLE(n) == Ins("build_tuple", Val("int", "", n))
SET_LINENO(n) == Ins("set_lineno", Val("int", "", n))
Plain(op) == Ins(op, NoneV)

\* The outcome of a run of emitter calls: the instructions appended and
\* whether the run finished (ok) or raised part-way, and then which error.
Ok(ops) == [ops |-> ops, ok |-> TRUE, err |-> ""]
Raise(err) == [ops |-> <<>>, ok |-> FALSE, err |-> err]

RECURSIVE Chain(_)
\* Run the parts in order; stop at the first one that raises.
Chain(parts) ==
    IF parts = <<>> THEN Ok(<<>>)
    ELSE IF ~Head(parts).ok THEN Head(parts)
    ELSE LET rest == Chain(Tail(parts))
         IN [ops |-> Head(parts).ops \o rest.ops, ok |-> rest.ok, err |-> rest.err]

(* ------------------------------ the AST ------------------------------- *)

\* Names load_name cannot resolve: resolving one raises.
Unresolvable == {"Undefined"}

PythonExpression(src) == [type |-> "PythonExpression", ast |-> src]
PythonModule(src) == [type |-> "PythonModule", ast |-> src]
OperatorExpr(op, value) == [type |-> "OperatorExpr", operator |-> op, value |-> value]
BindingNode(name, expr) == [type |-> "Binding", name |-> name, expr |-> expr]

\* The operator expressions of the grammar: `=` takes an expression, `::`
\* takes a block of statements.
Literal == OperatorExpr("=", PythonExpression("'hi'"))

\* The ChildDef nodes read: every mix of the two policy verdicts, with and
\* without an identifier on the plain one, and one whose type does not
\* resolve.
ChildDefs ==
    {[typename |-> "Label", identifier |-> None, subclass |-> s, engine |-> e] :
        s \in BOOLEAN, e \in BOOLEAN}
    \cup {[typename |-> "Label", identifier |-> "lbl1", subclass |-> FALSE,
           engine |-> FALSE],
          [typename |-> "Undefined", identifier |-> None, subclass |-> FALSE,
           engine |-> FALSE]}

\* The default StorageExpr nodes read: with and without a declared type;
\* carrying no expression, an operator expression, or a Binding that wraps a
\* host expression directly; and one whose declared type does not resolve.
StorageDefaults ==
    {[kind |-> "attr", name |-> "text", typename |-> "", expr |-> NoExpr],
     [kind |-> "attr", name |-> "text", typename |-> "", expr |-> Literal],
     [kind |-> "attr", name |-> "text", typename |-> "Str", expr |-> Literal],
     [kind |-> "attr", name |-> "text", typename |-> "Str",
      expr |-> BindingNode("text", PythonExpression("'hi'"))],
     [kind |-> "attr", name |-> "text", typename |-> "Undefined", expr |-> NoExpr]}

\* The static and const StorageExpr nodes read: a literal with and without a
\* declared type, an expression on the block's locals (one local in a
\* static, two in a const), and one whose declared type does not resolve.
StorageValues(kind) ==
    {[kind |-> kind, name |-> "limit", typename |-> "", expr |-> Literal],
     [kind |-> kind, name |-> "limit", typename |-> "Str", expr |-> Literal],
     [kind |-> kind, name |-> "limit", typename |-> "Str",
      expr |-> OperatorExpr("=", PythonExpression(IF kind = "static" THEN "x" ELSE "x + y"))],
     [kind |-> kind, name |-> "limit", typename |-> "Undefined", expr |-> Literal]}

\* The Binding nodes read as body items.
Bindings == {[name |-> "text", expr |-> Literal],
             [name |-> "clicked", expr |-> OperatorExpr("::", PythonModule("print 1"))]}

\* The block compiled: it has the locals x and y.
Blocks == {[has_locals |-> TRUE, local_names |-> {"x", "y"}]}

(* ---------------------------- the var pool ---------------------------- *)

VarName(i) == "_[var_" \o ToString(i) \o "]"

\* The names handed out and not released.
Live(pool) == {VarName(i) : i \in 0..(pool.issued - 1)} \ {pool.free[i] : i \in 1..Len(pool.free)}

var_pool_peek(pool) == IF pool.free # <<>> THEN Head(pool.free) ELSE VarName(pool.issued)

var_pool_new(pool) ==
    IF pool.free # <<>> THEN [pool EXCEPT !.free = Tail(pool.free)]
    ELSE [pool EXCEPT !.issued = pool.issued + 1]

var_pool_release(pool, name) == [pool EXCEPT !.free = <<name>> \o pool.free]


(* ------------------- capabilities of the subclass --------------------- *)

\* load_name: emit the code that resolves `name`, or raise when the name
\* cannot be resolved.
load_name(name) == IF name \in Unresolvable THEN Raise("NameResolutionError") ELSE Ok(<<LOAD_NAME(name)>>)

has_locals(blk) == blk.has_locals

local_names(blk) == blk.local_names

\* The verdicts of the two policy predicates, carried by the node.
needs_subclass(node) == node.subclass

needs_engine(node) == node.engine

(* ----------------------------- the emitter ---------------------------- *)

scope_key == "_[scope_key]"

\* An error-remapping region around `body`: it is closed on every exit
\* path, and an error raised inside it still propagates.
try_squash_raise(body) ==
    [ops |-> <<Plain("setup_squash")>> \o body.ops \o <<Plain("end_squash")>>,
     ok |-> body.ok, err |-> body.err]

\* The names an expression refers to, in order of appearance.
FreeNames(src) ==
    CASE src = "x" -> <<"x">>
      [] src = "x + y" -> <<"x", "y">>
      [] OTHER -> <<>>

\* The names of `locals` the expression refers to, in order of appearance.
rewrite_to_fast_locals(src, locals) ==
    SelectSeq(FreeNames(src), LAMBDA name : name \in locals)

\* The code object of an expression function taking `args`.
to_code(src, args) == Val("code_func", src, Len(args))

\* compile(ast, filename, mode)
compile(src, mode) == Val("code_" \o mode, src, 0)

Top(stack) == stack[Len(stack)]

\* cg.load_fast(stack[-1]) and cg.load_const(stack[-1]): an IndexError when
\* the stack is empty.
load_fast_top(stack) == IF stack = <<>> THEN Raise("IndexError") ELSE Ok(<<LOAD_FAST(Top(stack))>>)

load_const_top(stack) == IF stack = <<>> THEN Raise("IndexError") ELSE Ok(<<LOAD_CONST(StrV(Top(stack)))>>)

Pop(stack) == SubSeq(stack, 1, Len(stack) - 1)

(* ------------------------ what the visitors emit ---------------------- *)

\* A prologue that builds the scope object and drops it.
prepare_block_unstored ==
    << Plain("store_globals_to_fast"),
       Plain("store_helpers_to_fast"),
       LOAD_HELPER("make_object"),
       CALL_FUNCTION(0),
       Plain("pop_top") >>

prepare_block ==
    << Plain("store_globals_to_fast"),
       Plain("store_helpers_to_fast"),
       LOAD_HELPER("make_object"),
       CALL_FUNCTION(0),
       STORE_FAST(scope_key) >>

\* visit_ChildDef, from set_lineno to the engine: lines 89-131.
ChildDef_validate ==
    try_squash_raise(Ok(<< Plain("dup_top"),
                           LOAD_HELPER("validate_declarative"),
                           Plain("rot_two"),
                           CALL_FUNCTION(1),
                           Plain("pop_top") >>))

ChildDef_subclass(node) ==
    IF needs_subclass(node)
    THEN << LOAD_CONST(StrV(node.typename)),
            Plain("rot_two"),
            BUILD_TUPLE(1),
            Plain("build_map"),
            LOAD_GLOBAL("__name__"),
            LOAD_CONST(StrV("__module__")),
            Plain("store_map"),
            Plain("build_class") >>
    ELSE <<>>

ChildDef_construct(node, class_var, node_var, blk) ==
    << Plain("dup_top"),
       STORE_FAST(class_var),
       LOAD_HELPER("construct_node"),
       Plain("rot_two"),
       LOAD_CONST(ConstV(node.identifier)),
       LOAD_FAST(scope_key),
       LOAD_CONST(BoolV(has_locals(blk))),
       CALL_FUNCTION(4),
       STORE_FAST(node_var) >>

ChildDef_engine(node, class_var) ==
    IF needs_engine(node)
    THEN << LOAD_HELPER("make_engine"),
            LOAD_FAST(class_var),
            CALL_FUNCTION(1),
            LOAD_FAST(class_var),
            STORE_ATTR("__engine__") >>
    ELSE <<>>

\* A visit_ChildDef that builds the engine before the class is settled.
ChildDef_head_engine_first(node, class_var, node_var, blk) ==
    Chain(<< Ok(<<SET_LINENO(node.lineno)>>),
             load_name(node.typename),
             Ok(ChildDef_engine(node, class_var)),
             ChildDef_validate,
             Ok(ChildDef_subclass(node)),
             Ok(ChildDef_construct(node, class_var, node_var, blk)) >>)

\* A visit_ChildDef whose load_name does not raise on an unknown type.
ChildDef_head_unresolved(node, class_var, node_var, blk) ==
    Chain(<< Ok(<<SET_LINENO(node.lineno), LOAD_NAME(node.typename)>>),
             ChildDef_validate,
             Ok(ChildDef_subclass(node)),
             Ok(ChildDef_construct(node, class_var, node_var, blk)),
             Ok(ChildDef_engine(node, class_var)) >>)

ChildDef_head(node, class_var, node_var, blk) ==
    Chain(<< Ok(<<SET_LINENO(node.lineno)>>),
             load_name(node.typename),
             ChildDef_validate,
             Ok(ChildDef_subclass(node)),
             Ok(ChildDef_construct(node, class_var, node_var, blk)),
             Ok(ChildDef_engine(node, class_var)) >>)

\* A visit_ChildDef that appends the parent to the node.
ChildDef_append_swapped(parent_var, node_var) ==
    << LOAD_FAST(node_var),
       LOAD_ATTR("children"),
       LOAD_ATTR("append"),
       LOAD_FAST(parent_var),
       CALL_FUNCTION(1),
       Plain("pop_top") >>

\* visit_ChildDef, adding the node to its parent: lines 141-147.
ChildDef_append(parent_var, node_var) ==
    << LOAD_FAST(parent_var),
       LOAD_ATTR("children"),
       LOAD_ATTR("append"),
       LOAD_FAST(node_var),
       CALL_FUNCTION(1),
       Plain("pop_top") >>

\* A visit_StorageExpr that passes the kind where the name belongs.
StorageExpr_default_swapped(node, classes) ==
    Chain(<< Ok(<<SET_LINENO(node.lineno)>>),
             try_squash_raise(Chain(<<
                 Ok(<<LOAD_HELPER("add_storage")>>),
                 load_fast_top(classes),
                 Ok(<<LOAD_CONST(StrV(node.kind))>>),
                 IF node.typename # "" THEN load_name(node.typename)
                                       ELSE Ok(<<LOAD_CONST(NoneV)>>),
                 Ok(<< LOAD_CONST(StrV(node.name)),
                       CALL_FUNCTION(4),
                       Plain("pop_top") >>) >>)) >>)

\* A region entered by hand: it is closed only when its body finishes.
squash_unclosed(body) ==
    [ops |-> <<Plain("setup_squash")>> \o body.ops
                \o (IF body.ok THEN <<Plain("end_squash")>> ELSE <<>>),
     ok |-> body.ok, err |-> body.err]

\* A visit_StorageExpr that enters its region without a `with` statement.
StorageExpr_default_unclosed(node, classes) ==
    Chain(<< Ok(<<SET_LINENO(node.lineno)>>),
             squash_unclosed(Chain(<<
                 Ok(<<LOAD_HELPER("add_storage")>>),
                 load_fast_top(classes),
                 Ok(<<LOAD_CONST(StrV(node.name))>>),
                 IF node.typename # "" THEN load_name(node.typename)
                                       ELSE Ok(<<LOAD_CONST(NoneV)>>),
                 Ok(<< LOAD_CONST(StrV(node.kind)),
                       CALL_FUNCTION(4),
                       Plain("pop_top") >>) >>)) >>)

\* visit_StorageExpr, the default kinds: lines 165-177.
StorageExpr_default(node, classes) ==
    Chain(<< Ok(<<SET_LINENO(node.lineno)>>),
             try_squash_raise(Chain(<<
                 Ok(<<LOAD_HELPER("add_storage")>>),
                 load_fast_top(classes),
                 Ok(<<LOAD_CONST(StrV(node.name))>>),
                 IF node.typename # "" THEN load_name(node.typename)
                                       ELSE Ok(<<LOAD_CONST(NoneV)>>),
                 Ok(<< LOAD_CONST(StrV(node.kind)),
                       CALL_FUNCTION(4),
                       Plain("pop_top") >>) >>)) >>)

RECURSIVE load_names(_)
\* for arg in call_args: self.load_name(arg)
load_names(args) ==
    IF args = <<>> THEN Ok(<<>>)
    ELSE Chain(<<load_name(Head(args)), load_names(Tail(args))>>)

\* Create and invoke the expression function: lines 211-215 and 249-253.
invoke_expr(expr_code, call_args) ==
    Chain(<< Ok(<<LOAD_CONST(expr_code), Plain("make_function")>>),
             load_names(call_args),
             Ok(<<CALL_FUNCTION(Len(call_args))>>) >>)

\* Validate the type of the value if necessary: lines 218-222 and 256-260.
type_check(node) ==
    IF node.typename # ""
    THEN Chain(<< Ok(<<LOAD_HELPER("type_check_expr"), Plain("rot_two")>>),
                  load_name(node.typename),
                  Ok(<<CALL_FUNCTION(2)>>) >>)
    ELSE Ok(<<>>)

\* A visit_StorageExpr_static that assigns the value and checks it after.
StorageExpr_static_late(node, classes, blk) ==
    LET py_node == node.expr.value
        call_args == rewrite_to_fast_locals(py_node.ast, local_names(blk))
        expr_code == to_code(py_node.ast, call_args)
    IN Chain(<< Ok(<<SET_LINENO(node.lineno)>>),
                try_squash_raise(Chain(<<
                    invoke_expr(expr_code, call_args),
                    Ok(<<Plain("dup_top"), LOAD_HELPER("add_static_attr"), Plain("rot_two")>>),
                    load_fast_top(classes),
                    Ok(<< Plain("rot_two"), LOAD_CONST(StrV(node.name)), Plain("rot_two"),
                          CALL_FUNCTION(3), Plain("pop_top") >>),
                    type_check(node),
                    Ok(<<Plain("pop_top")>>) >>)) >>)

\* visit_StorageExpr_static: lines 189-226.
StorageExpr_static(node, classes, blk) ==
    LET py_node == node.expr.value
        call_args == rewrite_to_fast_locals(py_node.ast, local_names(blk))
        expr_code == to_code(py_node.ast, call_args)
    IN Chain(<< Ok(<<SET_LINENO(node.lineno)>>),
                try_squash_raise(Chain(<<
                    Ok(<<LOAD_HELPER("add_static_attr")>>),
                    load_fast_top(classes),
                    Ok(<<LOAD_CONST(StrV(node.name))>>),
                    invoke_expr(expr_code, call_args),
                    type_check(node),
                    Ok(<<CALL_FUNCTION(3), Plain("pop_top")>>) >>)) >>)

\* A visit_StorageExpr_const that stores the value on the class.
StorageExpr_const_attr(node, blk) ==
    LET py_node == node.expr.value
        call_args == rewrite_to_fast_locals(py_node.ast, local_names(blk))
        expr_code == to_code(py_node.ast, call_args)
    IN Chain(<< Ok(<<SET_LINENO(node.lineno)>>),
                try_squash_raise(Chain(<<
                    invoke_expr(expr_code, call_args),
                    type_check(node),
                    Ok(<<LOAD_FAST("_[var_2]"), STORE_ATTR(node.name)>>) >>)) >>)

\* visit_StorageExpr_const: lines 232-263.
StorageExpr_const(node, blk) ==
    LET py_node == node.expr.value
        call_args == rewrite_to_fast_locals(py_node.ast, local_names(blk))
        expr_code == to_code(py_node.ast, call_args)
    IN Chain(<< Ok(<<SET_LINENO(node.lineno)>>),
                try_squash_raise(Chain(<<
                    invoke_expr(expr_code, call_args),
                    type_check(node),
                    Ok(<<STORE_FAST(node.name)>>) >>)) >>)

\* A visit_OperatorExpr that leaves the result of run_operator on the
\* operand stack.
OperatorExpr_run_kept(node, lineno, nodes, binds, expr_code) ==
    Chain(<< Ok(<<SET_LINENO(lineno)>>),
             try_squash_raise(Chain(<<
                 Ok(<<LOAD_HELPER("run_operator")>>),
                 load_fast_top(nodes),
                 load_const_top(binds),
                 Ok(<< LOAD_CONST(StrV(node.operator)),
                       LOAD_CONST(expr_code),
                       Plain("load_globals_from_fast"),
                       CALL_FUNCTION(5) >>) >>)) >>)

\* visit_OperatorExpr after the value was visited: lines 280-289.
OperatorExpr_run(node, lineno, nodes, binds, expr_code) ==
    Chain(<< Ok(<<SET_LINENO(lineno)>>),
             try_squash_raise(Chain(<<
                 Ok(<<LOAD_HELPER("run_operator")>>),
                 load_fast_top(nodes),
                 load_const_top(binds),
                 Ok(<< LOAD_CONST(StrV(node.operator)),
                       LOAD_CONST(expr_code),
                       Plain("load_globals_from_fast"),
                       CALL_FUNCTION(5),
                       Plain("pop_top") >>) >>)) >>)

(* ------------------------------ the state ----------------------------- *)

VARIABLES
    block,          \* the block being compiled: has_locals(), local_names()
    ast,            \* the body-level AST nodes read so far, in source order
    frames,         \* the active visitor calls, outermost first
    var_pool,       \* BlockCompiler.var_pool
    class_stack,    \* BlockCompiler.class_stack
    node_stack,     \* BlockCompiler.node_stack
    bind_stack,     \* BlockCompiler.bind_stack
    code_stack,     \* BlockCompiler.code_stack
    code,           \* the code generator's instruction stream
    status,         \* where the compilation of the block stands
    unit,           \* the assembled code unit, once there is one
    vm,             \* the outcome of executing the unit
    ret             \* the last visitor call that returned or raised

vars == <<block, ast, frames, var_pool, class_stack, node_stack, bind_stack,
          code_stack, code, status, unit, vm, ret>>

\* What a visitor can see of the compiler when it is entered or left.
Snapshot == [pool |-> var_pool, class_stack |-> class_stack,
             node_stack |-> node_stack, bind_stack |-> bind_stack,
             code_stack |-> code_stack, code_len |-> Len(code),
             callers |-> Len(frames)]

\* A visitor call: the node visited (`n` is the body item it belongs to),
\* where the call stands, its local variables, and the state at its entry.
Frame(fn, n, pc, class_var, node_var, node) ==
    [fn |-> fn, n |-> n, pc |-> pc, class_var |-> class_var,
     node_var |-> node_var, node |-> node, entry |-> Snapshot]

NoSnapshot == [pool |-> [free |-> <<>>, issued |-> 0], class_stack |-> <<>>,
               node_stack |-> <<>>, bind_stack |-> <<>>, code_stack |-> <<>>,
               code_len |-> 0, callers |-> 0]

NoFrame == [fn |-> "", n |-> 0, pc |-> "", class_var |-> "", node_var |-> "",
            node |-> NoExpr, entry |-> NoSnapshot]

NoVm == [ran |-> FALSE]

Init ==
    /\ block \in Blocks
    /\ ast = <<>>
    /\ frames = <<>>
    /\ var_pool = [free |-> <<>>, issued |-> 0]
    /\ class_stack = <<>>
    /\ node_stack = <<>>
    /\ bind_stack = <<>>
    /\ code_stack = <<>>
    /\ code = <<>>
    /\ status = "init"
    /\ unit = <<>>
    /\ vm = NoVm
    /\ ret = [frame |-> NoFrame, how |-> "", err |-> "", exit |-> NoSnapshot]

TopFrame == frames[Len(frames)]

\* The frames once the innermost call has returned: its caller goes on
\* after its `self.visit(...)`.
Returned(fs) ==
    LET rest == Pop(fs)
    IN IF rest # <<>> /\ rest[Len(rest)].pc \in {"expr", "value"}
       THEN [rest EXCEPT ![Len(rest)].pc = "ret"]
       ELSE rest

\* The innermost call is a visit_ChildDef in its loop over the body.
InBody == status = "compiling" /\ frames # <<>> /\ TopFrame.fn = "ChildDef"

\* The innermost call stands at `pc` in visitor `fn`.
At(fn, pc) ==
    /\ status = "compiling"
    /\ frames # <<>>
    /\ TopFrame.fn = fn
    /\ TopFrame.pc = pc

\* The node the innermost call is about to visit through self.visit.
Pending ==
    IF status # "compiling" \/ frames = <<>> THEN NoExpr
    ELSE IF TopFrame.pc = "expr" THEN TopFrame.node.expr
    ELSE IF TopFrame.pc = "value" THEN TopFrame.node.value
    ELSE NoExpr

\* The call `frame` returns to its caller.
Return(frame) ==
    ret' = [frame |-> frame, how |-> "return", err |-> "", exit |-> Snapshot']

\* The call `frame` raises `err`.  No visitor handles an error: it leaves
\* every active call at once and reaches the caller of the top-level visit.
Propagate(frame, err) ==
    /\ status' = "error"
    /\ frames' = <<>>
    /\ ret' = [frame |-> frame, how |-> "raise", err |-> err, exit |-> Snapshot']

(* ------------------------------ the driver ---------------------------- *)

\* A visit_ChildDef whose names are not taken from the pool, so that a
\* nested ChildDef is handed the same names.
claim_vars_unclaimed(pool) ==
    [class_var |-> var_pool_peek(pool),
     node_var |-> var_pool_peek(var_pool_new(pool)),
     pool |-> pool]

\* A visit_ChildDef that takes one name for both variables.
claim_vars_same(pool) ==
    [class_var |-> var_pool_peek(pool), node_var |-> var_pool_peek(pool),
     pool |-> var_pool_new(pool)]

\* Claim the variables needed for the class and construct node.
claim_vars(pool) ==
    LET p1 == var_pool_new(pool)
    IN [class_var |-> var_pool_peek(pool), node_var |-> var_pool_peek(p1),
        pool |-> var_pool_new(p1)]

\* A visit_ChildDef that forgets to release node_var.
release_vars_leak(pool, class_var, node_var) == var_pool_release(pool, class_var)

\* Release the held variables.
release_vars(pool, class_var, node_var) ==
    var_pool_release(var_pool_release(pool, class_var), node_var)

\* The block's own class and construct node, held in two pool variables.
block_root(class_var, node_var) ==
    << LOAD_CONST(Val("class", "<block>", 0)), STORE_FAST(class_var),
       LOAD_CONST(Val("node", None, 0)), STORE_FAST(node_var) >>

\* The subclass starts the block: the prologue, then the block's own class
\* and node go on the stacks, then the root ChildDef is visited.
compile_block ==
    /\ status = "init"
    /\ LET class_var == var_pool_peek(var_pool)
           node_var == var_pool_peek(var_pool_new(var_pool))
       IN /\ var_pool' = var_pool_new(var_pool_new(var_pool))
          /\ code' = prepare_block \o block_root(class_var, node_var)
          /\ class_stack' = <<class_var>>
          /\ node_stack' = <<node_var>>
    /\ status' = "compiling"
    /\ UNCHANGED <<block, ast, frames, bind_stack, code_stack, unit, vm, ret>>

\* The root was visited: the block's variables are given back and the
\* stream is assembled into the code unit.
finish_block ==
    /\ status = "visited"
    /\ var_pool' = var_pool_release(var_pool_release(var_pool, Top(class_stack)),
                                    Top(node_stack))
    /\ class_stack' = Pop(class_stack)
    /\ node_stack' = Pop(node_stack)
    /\ unit' = code
    /\ status' = "assembled"
    /\ UNCHANGED <<block, ast, frames, bind_stack, code_stack, code, vm, ret>>

(* ----------------------------- the visitors --------------------------- *)

\* A body item can be read while the node budget lasts.
CanRead == Len(ast) < MaxNodes

Parent == IF frames = <<>> THEN 0 ELSE TopFrame.n

\* A visitor that makes no call to self.visit.
Leaf(fn, n, node) == Frame(fn, n, "", "", "", node)

\* A visit_ChildDef that leaves its entries on the stacks.
ChildDef_pop_forgotten(stack) == stack

\* A visit_ChildDef that pops its caller's entry as well.
ChildDef_pop_twice(stack) == Pop(Pop(stack))

\* self.class_stack.pop() and self.node_stack.pop(): lines 138-139.
ChildDef_pop(stack) == Pop(stack)

\* A visit_OperatorExpr that reads the top of code_stack and leaves it.
OperatorExpr_peek(stack) == [code |-> Top(stack), rest |-> stack]

\* code = self.code_stack.pop(): line 279.
OperatorExpr_pop(stack) == [code |-> Top(stack), rest |-> Pop(stack)]

\* A visit_Binding that leaves its name on bind_stack.
Binding_pop_forgotten(stack) == stack

\* self.bind_stack.pop(): line 271.
Binding_pop(stack) == Pop(stack)

\* A visit_PythonExpression that appends its code object twice.
PythonExpression_append_twice(stack, obj) == Append(Append(stack, obj), obj)

\* self.code_stack.append(code): line 297.
PythonExpression_append(stack, obj) == Append(stack, obj)

\* visit_ChildDef up to the loop over the body: lines 83-135.
visit_ChildDef_enter ==
    /\ status = "compiling"
    /\ CanRead
    /\ (frames = <<>> /\ ast = <<>>) \/ InBody
    /\ UNCHANGED <<block, bind_stack, code_stack, unit, vm>>
    /\ \E d \in ChildDefs :
         LET n == Len(ast) + 1
             node == [type |-> "ChildDef", parent |-> Parent, lineno |-> n,
                      typename |-> d.typename, identifier |-> d.identifier,
                      subclass |-> d.subclass, engine |-> d.engine]
             c == claim_vars(var_pool)
             r == ChildDef_head(node, c.class_var, c.node_var, block)
             f == Frame("ChildDef", n, "body", c.class_var, c.node_var, node)
         IN /\ ast' = Append(ast, node)
            /\ var_pool' = c.pool
            /\ code' = code \o r.ops
            /\ IF r.ok
               THEN /\ class_stack' = Append(class_stack, c.class_var)
                    /\ node_stack' = Append(node_stack, c.node_var)
                    /\ frames' = Append(frames, f)
                    /\ UNCHANGED <<status, ret>>
               ELSE /\ UNCHANGED <<class_stack, node_stack>>
                    /\ Propagate(f, r.err)

\* visit_ChildDef once the body is exhausted: lines 138-151.
visit_ChildDef_exit ==
    /\ InBody
    /\ class_stack' = ChildDef_pop(class_stack)
    /\ node_stack' = ChildDef_pop(node_stack)
    /\ UNCHANGED <<block, ast, bind_stack, code_stack, unit, vm>>
    /\ LET r == load_fast_top(ChildDef_pop(node_stack))
       IN IF r.ok
          THEN /\ code' = code \o ChildDef_append(Top(ChildDef_pop(node_stack)),
                                                  TopFrame.node_var)
               /\ var_pool' = release_vars(var_pool, TopFrame.class_var, TopFrame.node_var)
               /\ frames' = Returned(frames)
               /\ status' = IF Len(frames) = 1 THEN "visited" ELSE status
               /\ Return(TopFrame)
          ELSE /\ UNCHANGED <<code, var_pool>>
               /\ Propagate(TopFrame, r.err)

\* The StorageExpr node read as the next body item.
StorageNode(d) ==
    [type |-> "StorageExpr", parent |-> Parent, lineno |-> Len(ast) + 1,
     kind |-> d.kind, name |-> d.name, typename |-> d.typename, expr |-> d.expr]

\* visit_StorageExpr, the default kinds, up to the visit of the
\* expression: lines 157-182.
visit_StorageExpr_enter ==
    /\ InBody
    /\ CanRead
    /\ UNCHANGED <<block, var_pool, class_stack, node_stack, code_stack, unit, vm>>
    /\ \E d \in StorageDefaults :
         LET node == StorageNode(d)
             r == StorageExpr_default(node, class_stack)
         IN /\ ast' = Append(ast, node)
            /\ code' = code \o r.ops
            /\ IF ~r.ok
               THEN /\ UNCHANGED bind_stack
                    /\ Propagate(Leaf("StorageExpr", node.lineno, node), r.err)
               ELSE IF node.expr # NoExpr
               THEN /\ bind_stack' = Append(bind_stack, node.name)
                    /\ frames' = Append(frames, Frame("StorageExpr", node.lineno,
                                                      "expr", "", "", node))
                    /\ UNCHANGED <<status, ret>>
               ELSE /\ UNCHANGED <<bind_stack, frames, status>>
                    /\ Return(Leaf("StorageExpr", node.lineno, node))

\* visit_StorageExpr after the expression was visited: line 183.
visit_StorageExpr_exit ==
    /\ At("StorageExpr", "ret")
    /\ UNCHANGED <<block, ast, var_pool, class_stack, node_stack, code_stack, code, unit, vm>>
    /\ IF bind_stack # <<>>
       THEN /\ bind_stack' = Pop(bind_stack)
            /\ frames' = Returned(frames)
            /\ UNCHANGED status
            /\ Return(TopFrame)
       ELSE /\ UNCHANGED bind_stack
            /\ Propagate(TopFrame, "IndexError")

\* visit_StorageExpr for kind 'static': lines 157-159 and 185-226.
visit_StorageExpr_static ==
    /\ InBody
    /\ CanRead
    /\ UNCHANGED <<block, var_pool, class_stack, node_stack, bind_stack,
                   code_stack, unit, vm>>
    /\ \E d \in StorageValues("static") :
         LET node == StorageNode(d)
             r == StorageExpr_static(node, class_stack, block)
         IN /\ ast' = Append(ast, node)
            /\ code' = code \o r.ops
            /\ IF r.ok
               THEN /\ UNCHANGED <<frames, status>>
                    /\ Return(Leaf("StorageExpr", node.lineno, node))
               ELSE Propagate(Leaf("StorageExpr", node.lineno, node), r.err)

\* visit_StorageExpr for kind 'const': lines 161-163 and 228-263.
visit_StorageExpr_const ==
    /\ InBody
    /\ CanRead
    /\ UNCHANGED <<block, var_pool, class_stack, node_stack, bind_stack,
                   code_stack, unit, vm>>
    /\ \E d \in StorageValues("const") :
         LET node == StorageNode(d)
             r == StorageExpr_const(node, block)
         IN /\ ast' = Append(ast, node)
            /\ code' = code \o r.ops
            /\ IF r.ok
               THEN /\ UNCHANGED <<frames, status>>
                    /\ Return(Leaf("StorageExpr", node.lineno, node))
               ELSE Propagate(Leaf("StorageExpr", node.lineno, node), r.err)

\* visit_Binding up to the visit of the expression: lines 269-270.  The
\* Binding is the next item of a body, or the node its caller visits.
visit_Binding_enter ==
    /\ \/ /\ InBody
          /\ CanRead
          /\ \E d \in Bindings :
               LET n == Len(ast) + 1
                   node == [type |-> "Binding", parent |-> Parent, lineno |-> n,
                            name |-> d.name, expr |-> d.expr]
               IN /\ ast' = Append(ast, node)
                  /\ frames' = Append(frames, Frame("Binding", n, "expr", "", "", node))
                  /\ bind_stack' = Append(bind_stack, node.name)
       \/ /\ Pending.type = "Binding"
          /\ ast' = ast
          /\ frames' = Append(frames, Frame("Binding", TopFrame.n, "expr", "", "", Pending))
          /\ bind_stack' = Append(bind_stack, Pending.name)
    /\ UNCHANGED <<block, var_pool, class_stack, node_stack, code_stack, code,
                   status, unit, vm, ret>>

\* visit_Binding after the expression was visited: line 271.
visit_Binding_exit ==
    /\ At("Binding", "ret")
    /\ UNCHANGED <<block, ast, var_pool, class_stack, node_stack, code_stack, code, unit, vm>>
    /\ IF bind_stack # <<>>
       THEN /\ bind_stack' = Binding_pop(bind_stack)
            /\ frames' = Returned(frames)
            /\ UNCHANGED status
            /\ Return(TopFrame)
       ELSE /\ UNCHANGED bind_stack
            /\ Propagate(TopFrame, "IndexError")

\* visit_OperatorExpr up to the visit of the value: lines 277-278.
visit_OperatorExpr_enter ==
    /\ Pending.type = "OperatorExpr"
    /\ frames' = Append(frames, Frame("OperatorExpr", TopFrame.n, "value", "", "", Pending))
    /\ UNCHANGED <<block, ast, var_pool, class_stack, node_stack, bind_stack,
                   code_stack, code, status, unit, vm, ret>>

\* visit_OperatorExpr after the value was visited: lines 279-289.
visit_OperatorExpr_exit ==
    /\ At("OperatorExpr", "ret")
    /\ UNCHANGED <<block, ast, var_pool, class_stack, node_stack, bind_stack, unit, vm>>
    /\ IF code_stack = <<>>
       THEN /\ UNCHANGED <<code_stack, code>>
            /\ Propagate(TopFrame, "IndexError")
       ELSE LET popped == OperatorExpr_pop(code_stack)
                r == OperatorExpr_run(TopFrame.node, ast[TopFrame.n].lineno,
                                      node_stack, bind_stack, popped.code)
            IN /\ code_stack' = popped.rest
               /\ code' = code \o r.ops
               /\ IF r.ok
                  THEN /\ frames' = Returned(frames)
                       /\ UNCHANGED status
                       /\ Return(TopFrame)
                  ELSE Propagate(TopFrame, r.err)

\* visit_PythonExpression: lines 295-297.
visit_PythonExpression ==
    /\ Pending.type = "PythonExpression"
    /\ code_stack' = PythonExpression_append(code_stack, compile(Pending.ast, "eval"))
    /\ frames' = [frames EXCEPT ![Len(frames)].pc = "ret"]
    /\ UNCHANGED <<block, ast, var_pool, class_stack, node_stack, bind_stack,
                   code, status, unit, vm>>
    /\ Return(Leaf("PythonExpression", TopFrame.n, Pending))

\* visit_PythonModule: lines 303-305.
visit_PythonModule ==
    /\ Pending.type = "PythonModule"
    /\ code_stack' = Append(code_stack, compile(Pending.ast, "exec"))
    /\ frames' = [frames EXCEPT ![Len(frames)].pc = "ret"]
    /\ UNCHANGED <<block, ast, var_pool, class_stack, node_stack, bind_stack,
                   code, status, unit, vm>>
    /\ Return(Leaf("PythonModule", TopFrame.n, Pending))

Compile ==
    \/ compile_block
    \/ visit_ChildDef_enter
    \/ visit_ChildDef_exit
    \/ visit_StorageExpr_enter
    \/ visit_StorageExpr_exit
    \/ visit_StorageExpr_static
    \/ visit_StorageExpr_const
    \/ visit_Binding_enter
    \/ visit_Binding_exit
    \/ visit_OperatorExpr_enter
    \/ visit_OperatorExpr_exit
    \/ visit_PythonExpression
    \/ visit_PythonModule
    \/ finish_block

(* --------------------- executing the emitted stream ------------------- *)

\* The helpers that can reject their argument at run time.
Fallible == {"validate_declarative", "type_check_expr"}

\* The machine before the first instruction.  `failAt` is the rank of the
\* fallible step (a fallible helper call, a class creation) that will raise
\* (0: none does).
Machine(failAt) ==
    [ran |-> TRUE, ok |-> TRUE, err |-> "", stack |-> <<>>,
     fast |-> [name \in {} |-> NoneV], globals |-> FALSE, helpers |-> FALSE,
     calls |-> <<>>, nodes |-> <<>>, children |-> <<>>, attrs |-> <<>>,
     classes |-> 0, failAt |-> failAt, fallible |-> 0]

Fail(m, why) == [m EXCEPT !.ok = FALSE, !.err = why]

Push(m, v) == [m EXCEPT !.stack = Append(m.stack, v)]

\* The machine's stack without its n topmost values.
Drop(m, n) == [m EXCEPT !.stack = SubSeq(m.stack, 1, Len(m.stack) - n)]

\* The k-th value from the top of the stack (1: the top).
Peek(m, k) == m.stack[Len(m.stack) + 1 - k]

\* What calling `f` with `args` returns and does.
Call(m, f, args) ==
    LET logged == [m EXCEPT !.calls = Append(m.calls, [fn |-> f, args |-> args])]
    IN CASE f.k = "helper" /\ f.v \in Fallible /\ m.fallible + 1 = m.failAt ->
                Fail(m, f.v)
         [] f.k = "helper" /\ f.v \in Fallible /\ m.fallible + 1 # m.failAt ->
                LET n == [logged EXCEPT !.fallible = m.fallible + 1]
                IN IF f.v = "type_check_expr"
                   THEN Push(n, Val("checked", args[1].v, args[1].n))
                   ELSE Push(n, NoneV)
         [] f.k = "helper" /\ f.v = "make_object" -> Push(logged, Val("scope", "", 0))
         [] f.k = "helper" /\ f.v = "construct_node" ->
                LET id == Len(m.nodes) + 1
                IN Push([logged EXCEPT !.nodes = Append(m.nodes, [class |-> args[1],
                                                                 identifier |-> args[2]]),
                                       !.children = Append(m.children, <<>>)],
                        Val("node", args[2].v, id))
         [] f.k = "helper" /\ f.v = "make_engine" ->
                Push(logged, Val("engine", args[1].v, args[1].n))
         [] f.k = "helper" /\ f.v \in {"add_storage", "add_static_attr", "run_operator"} ->
                Push(logged, NoneV)
         [] f.k = "func" -> Push(logged, Val("value", f.v, Len(args)))
         [] f.k = "append" /\ f.n >= 1 /\ Len(args) = 1 ->
                Push([logged EXCEPT !.children[f.n] = Append(@, args[1])], NoneV)
         [] f.k = "append" /\ f.n = 0 -> Push(logged, NoneV)
         [] OTHER -> Fail(m, "not callable")

\* One instruction.
Step(m, ins) ==
    LET depth == Len(m.stack)
        a == ins.arg
        op == ins.op
    IN CASE op = "load_const" -> Push(m, a)
         [] op = "load_helper_from_fast" ->
                IF m.helpers THEN Push(m, Val("helper", a.v, 0)) ELSE Fail(m, "unbound helper")
         [] op = "call_function" ->
                IF depth >= a.n + 1
                THEN Call(Drop(m, a.n + 1), m.stack[depth - a.n],
                          SubSeq(m.stack, depth - a.n + 1, depth))
                ELSE Fail(m, "underflow")
         [] op = "load_fast" ->
                IF a.v \in DOMAIN m.fast THEN Push(m, m.fast[a.v]) ELSE Fail(m, "unbound local")
         [] op = "set_lineno" -> m
         [] op = "setup_squash" -> m
         [] op = "end_squash" -> m
         [] op = "pop_top" -> IF depth >= 1 THEN Drop(m, 1) ELSE Fail(m, "underflow")
         [] op = "rot_two" ->
                IF depth >= 2
                THEN [m EXCEPT !.stack = [@ EXCEPT ![depth] = m.stack[depth - 1],
                                                   ![depth - 1] = m.stack[depth]]]
                ELSE Fail(m, "underflow")
         [] op = "dup_top" -> IF depth >= 1 THEN Push(m, Peek(m, 1)) ELSE Fail(m, "underflow")
         [] op = "store_fast" ->
                IF depth >= 1
                THEN [m EXCEPT !.stack = SubSeq(m.stack, 1, depth - 1),
                               !.fast = (a.v :> m.stack[depth]) @@ m.fast]
                ELSE Fail(m, "underflow")
         [] op = "load_name" -> Push(m, Val("global", a.v, 0))
         [] op = "load_global" -> Push(m, Val("global", a.v, 0))
         [] op = "load_attr" ->
                IF depth >= 1 THEN Push(Drop(m, 1), Val(a.v, Peek(m, 1).v, Peek(m, 1).n))
                ELSE Fail(m, "underflow")
         [] op = "load_globals_from_fast" ->
                IF m.globals THEN Push(m, Val("globals", "", 0)) ELSE Fail(m, "unbound globals")
         [] op = "make_function" ->
                IF depth >= 1 THEN Push(Drop(m, 1), Val("func", Peek(m, 1).v, Peek(m, 1).n))
                ELSE Fail(m, "underflow")
         [] op = "store_attr" ->
                IF depth >= 2
                THEN [Drop(m, 2) EXCEPT !.attrs = Append(m.attrs,
                        [obj |-> Peek(m, 1), name |-> a.v, value |-> Peek(m, 2)])]
                ELSE Fail(m, "underflow")
         [] op = "build_tuple" ->
                IF depth >= a.n /\ a.n = 1
                THEN Push(Drop(m, 1), Val("tuple", Peek(m, 1).v, Peek(m, 1).n))
                ELSE Fail(m, "underflow")
         [] op = "build_map" -> Push(m, Val("map", "", 0))
         [] op = "store_map" -> IF depth >= 3 THEN Drop(m, 2) ELSE Fail(m, "underflow")
         [] op = "build_class" ->
                IF depth < 3 THEN Fail(m, "underflow")
                ELSE IF m.fallible + 1 = m.failAt THEN Fail(m, "build_class")
                ELSE Push([Drop(m, 3) EXCEPT !.classes = m.classes + 1,
                                             !.fallible = m.fallible + 1],
                          Val("subclass", Peek(m, 3).v, m.classes + 1))
         [] op = "store_globals_to_fast" -> [m EXCEPT !.globals = TRUE]
         [] op = "store_helpers_to_fast" -> [m EXCEPT !.helpers = TRUE]
         [] OTHER -> Fail(m, "bad instruction")

RECURSIVE Exec(_, _, _)
\* The runs of the stream from instruction i: at every step that can raise
\* (the step advances the count of fallible steps), the run in which it
\* does, and the runs that go on after it did not.  An error ends a run.
Exec(stream, m, i) ==
    IF i > Len(stream) \/ ~m.ok THEN {m}
    ELSE LET next == Step(m, stream[i])
         IN (IF next.fallible > m.fallible
             THEN {Step([m EXCEPT !.failAt = m.fallible + 1], stream[i])}
             ELSE {})
            \cup Exec(stream, next, i + 1)

\* The outcomes of executing a stream: the run in which nothing raises and,
\* for each fallible step reached, the run that ends there.
Run(stream) == Exec(stream, Machine(0), 1)

\* The host runtime executes the assembled unit.
execute ==
    /\ status = "assembled"
    /\ vm' \in Run(unit)
    /\ status' = "executed"
    /\ UNCHANGED <<block, ast, frames, var_pool, class_stack, node_stack, bind_stack,
                   code_stack, code, unit, ret>>

Next == Compile \/ execute

Spec == Init /\ [][Next]_vars


(* ------------------------------ the claims ---------------------------- *)

NoDuplicates(s) == \A i, j \in 1..Len(s) : i # j => s[i] # s[j]

IsChildDef(i) == ast[i].type = "ChildDef"

\* The instructions the last returned call emitted, its callees' included.
Emitted == SubSeq(code, ret.frame.entry.code_len + 1, ret.exit.code_len)

Returned_(fn) == ret.how = "return" /\ ret.frame.fn = fn

\* The last visitor call has just returned: nothing was emitted and no
\* visitor was entered since.
JustReturned ==
    /\ ret.how = "return"
    /\ status \in {"compiling", "visited"}
    /\ Len(code) = ret.exit.code_len
    /\ Len(frames) = ret.exit.callers

\* C1: when visit_ChildDef returns, the slots held from the pool are the
\* ones held when it was entered: its class and node variables and every
\* variable its descendants claimed were each released exactly once.
C1_SlotsReleasedOnReturn ==
    Returned_("ChildDef") =>
        /\ Live(ret.exit.pool) = Live(ret.frame.entry.pool)
        /\ {ret.frame.class_var, ret.frame.node_var} \cap Live(ret.exit.pool) = {}
        /\ NoDuplicates(ret.exit.pool.free)
        /\ Len(ret.exit.pool.free) + Cardinality(Live(ret.exit.pool))
              = ret.exit.pool.issued

\* The root ChildDef returned after a nested ChildDef and another item.
C1_Witness ==
    /\ Returned_("ChildDef")
    /\ ret.frame.n = 1
    /\ \E i, j \in 2..Len(ast) : IsChildDef(i) /\ ~IsChildDef(j)

ChildDefFrames == {i \in 1..Len(frames) : frames[i].fn = "ChildDef"}

\* The variables held by the visit_ChildDef calls on the recursion path.
Held == {frames[i].class_var : i \in ChildDefFrames}
        \cup {frames[i].node_var : i \in ChildDefFrames}

\* C2: at every point of a traversal the class and node variables held by
\* the active visit_ChildDef calls are pairwise distinct and still claimed,
\* and the name the pool would hand out next is not one of them.
C2_LiveSlotsDistinct ==
    /\ Cardinality(Held) = 2 * Cardinality(ChildDefFrames)
    /\ Held \subseteq Live(var_pool)
    /\ var_pool_peek(var_pool) \notin Held
    /\ status = "compiling" => NoDuplicates(class_stack \o node_stack)

\* A second child of the root is being visited with the variables its
\* elder sibling released.
C2_Witness ==
    /\ Cardinality(ChildDefFrames) = 2
    /\ Len(ast) = 3
    /\ IsChildDef(2)
    /\ ast[3].parent = 1
    /\ var_pool.issued = 6

\* The ChildDef nodes read up to node i: the rank of the construct node
\* that the code emitted for ChildDef i builds.
Rank(i) == Cardinality({j \in 1..i : IsChildDef(j)})

\* The ChildDef items of the body of node i, in source order.
ChildDefsOf(i) ==
    SelectSeq([j \in 1..Len(ast) |-> j], LAMBDA j : IsChildDef(j) /\ ast[j].parent = i)

Completed == status = "executed" /\ vm.ok

AppendCalls == {k \in 1..Len(vm.calls) : vm.calls[k].fn.k = "append"}

\* C3: after executing the stream, the children of each construct node are
\* the construct nodes of the ChildDef items of its body, in source order;
\* every ChildDef was appended once and no other item appended anything.
C3_ChildrenInSourceOrder ==
    Completed =>
        /\ Len(vm.children) = Rank(Len(ast))
        /\ Cardinality(AppendCalls) = Rank(Len(ast))
        /\ \A i \in 1..Len(ast) : IsChildDef(i) =>
              /\ Len(vm.children[Rank(i)]) = Len(ChildDefsOf(i))
              /\ \A k \in 1..Len(ChildDefsOf(i)) :
                    /\ vm.children[Rank(i)][k].k = "node"
                    /\ vm.children[Rank(i)][k].n = Rank(ChildDefsOf(i)[k])

\* The root has two ChildDef children and the stream was executed.
C3_Witness ==
    /\ Completed
    /\ Len(ast) = 3
    /\ ChildDefsOf(1) = <<2, 3>>
    /\ Len(vm.children[1]) = 2

\* The run_operator request of the last returned visit_OperatorExpr.
IsLoadConst(ins, v) == ins.op = "load_const" /\ ins.arg = v

OwnCode(node) ==
    compile(node.value.ast, IF node.value.type = "PythonModule" THEN "exec" ELSE "eval")

\* Every item read so far is a ChildDef or a Binding on an operator
\* expression.
OnlyOperatorBindings ==
    \A i \in 1..Len(ast) : ast[i].type \in {"ChildDef", "Binding"}

\* C4: a visit_OperatorExpr takes exactly one entry off code_stack, the one
\* the visit of its own value pushed, so it leaves the stack as it found
\* it; between sibling operator bindings the stack is empty.
C4_OperatorExprPopsItsOwnCode ==
    /\ Returned_("OperatorExpr") =>
          /\ ret.exit.code_stack = ret.frame.entry.code_stack
          /\ \E k \in 1..Len(Emitted) : IsLoadConst(Emitted[k], OwnCode(ret.frame.node))
    /\ (InBody /\ OnlyOperatorBindings) => code_stack = <<>>
    /\ (status = "visited" /\ OnlyOperatorBindings) => code_stack = <<>>

\* The second of two sibling operator bindings was compiled.
C4_Witness ==
    /\ Returned_("OperatorExpr")
    /\ Len(ast) = 3
    /\ ast[2].type = "Binding"
    /\ ast[3].type = "Binding"
    /\ ret.frame.n = 3
    /\ code_stack = <<>>


(* What the executed stream asked of the helpers. *)

Indices == [j \in 1..Len(ast) |-> j]

HelperCalls(name) ==
    SelectSeq(vm.calls, LAMBDA c : c.fn.k = "helper" /\ c.fn.v = name)

IsLoadHelper(ins, names) == ins.op = "load_helper_from_fast" /\ ins.arg.v \in names

\* The positions in `stream` that load one of the helpers `names`.
HelperLoads(stream, names) == {k \in 1..Len(stream) : IsLoadHelper(stream[k], names)}

\* The block is the ChildDef (Label, lbl1) with the one default StorageExpr
\* `text` of declared type Str carrying `expr`.
LabelExample(expr) ==
    /\ Len(ast) = 2
    /\ ast[1].typename = "Label"
    /\ ast[1].identifier = "lbl1"
    /\ ast[2].type = "StorageExpr"
    /\ ast[2].kind = "attr"
    /\ ast[2].name = "text"
    /\ ast[2].typename = "Str"
    /\ ast[2].expr = expr

\* One construct_node call, for lbl1, and one run_operator call, for text.
OneNodeOneBinding ==
    /\ Len(HelperCalls("construct_node")) = 1
    /\ HelperCalls("construct_node")[1].args[2] = StrV("lbl1")
    /\ Len(HelperCalls("run_operator")) = 1
    /\ HelperCalls("run_operator")[1].args[2] = StrV("text")
    /\ HelperCalls("run_operator")[1].args[4] = compile("'hi'", "eval")

\* In the instructions of the last returned call the attribute `name` is
\* registered once and then bound once.
RegistersThenBinds(name) ==
    /\ Cardinality(HelperLoads(Emitted, {"add_storage"})) = 1
    /\ Cardinality(HelperLoads(Emitted, {"run_operator"})) = 1
    /\ \E i \in HelperLoads(Emitted, {"add_storage"}),
          j \in HelperLoads(Emitted, {"run_operator"}) :
          /\ i < j
          /\ IsLoadConst(Emitted[i + 2], StrV(name))
          /\ IsLoadConst(Emitted[j + 2], StrV(name))

DefaultReturned ==
    /\ Returned_("StorageExpr")
    /\ ret.frame.node.kind = "attr"
    /\ ret.frame.node.expr # NoExpr

\* C5 as stated: the Label example whose StorageExpr carries a Binding that
\* wraps the host expression directly yields one construct_node call for
\* lbl1 and one run_operator call for text, and a default StorageExpr with
\* any attached expression registers the attribute, binds it under the
\* same name and leaves code_stack empty.
C5_Original ==
    /\ (Completed /\ LabelExample(BindingNode("text", PythonExpression("'hi'"))))
          => OneNodeOneBinding
    /\ DefaultReturned =>
          /\ RegistersThenBinds(ret.frame.node.name)
          /\ ret.exit.code_stack = <<>>

\* C5 as amended: the Label example whose StorageExpr carries an operator
\* expression on the host expression yields one construct_node call for
\* lbl1 and one run_operator call for text; a default StorageExpr with an
\* attached operator expression registers the attribute, binds it under the
\* same name and leaves code_stack as it found it; one that carries a
\* Binding wrapping the host expression directly emits no run_operator call
\* and leaves the compiled expression on code_stack.
C5_DefaultStorageExprBinds ==
    /\ (Completed /\ LabelExample(Literal)) => OneNodeOneBinding
    /\ (DefaultReturned /\ ret.frame.node.expr.type = "OperatorExpr") =>
          /\ RegistersThenBinds(ret.frame.node.name)
          /\ ret.exit.code_stack = ret.frame.entry.code_stack
          /\ ret.exit.bind_stack = ret.frame.entry.bind_stack
    /\ (DefaultReturned /\ ret.frame.node.expr.type = "Binding") =>
          /\ HelperLoads(Emitted, {"run_operator"}) = {}
          /\ ret.exit.code_stack =
                Append(ret.frame.entry.code_stack, compile("'hi'", "eval"))

\* The Label example with an operator expression was compiled and executed.
C5_Witness == Completed /\ LabelExample(Literal) /\ OneNodeOneBinding

\* The body items whose operator expression is visited: Bindings and
\* default StorageExprs that carry one.
VisitsOperator(j) ==
    /\ \/ ast[j].type = "Binding"
       \/ ast[j].type = "StorageExpr" /\ ast[j].kind = "attr"
    /\ ast[j].expr.type = "OperatorExpr"

OperatorItems == SelectSeq(Indices, VisitsOperator)

\* C6: the run_operator calls of the executed stream are those of the
\* visited operator expressions, in source order, each with the arguments
\* (the construct node of the enclosing ChildDef, the name of the enclosing
\* Binding or StorageExpr, the operator, the code of its own value, the
\* globals).
C6_RunOperatorArguments ==
    Completed =>
        /\ Len(HelperCalls("run_operator")) = Len(OperatorItems)
        /\ \A k \in 1..Len(OperatorItems) :
              LET item == ast[OperatorItems[k]]
                  args == HelperCalls("run_operator")[k].args
              IN /\ Len(args) = 5
                 /\ args[1].k = "node"
                 /\ args[1].n = Rank(item.parent)
                 /\ args[2] = StrV(item.name)
                 /\ args[3] = StrV(item.expr.operator)
                 /\ args[4] = OwnCode(item.expr)
                 /\ args[5].k = "globals"

\* A Binding that follows a nested ChildDef in the root's body was bound.
C6_Witness ==
    /\ Completed
    /\ Len(ast) = 3
    /\ IsChildDef(2)
    /\ ast[3].type = "Binding"
    /\ ast[3].parent = 1
    /\ HelperCalls("run_operator")[1].args[1].n = 1

ConstReturned == Returned_("StorageExpr") /\ ret.frame.node.kind = "const"

\* C7: a const StorageExpr loads none of add_storage, add_static_attr and
\* run_operator, stores no attribute, leaves the four stacks as they were,
\* and its one store is a store of the value into the local it names.
C7_ConstTouchesNoClass ==
    ConstReturned =>
        /\ HelperLoads(Emitted, {"add_storage", "add_static_attr", "run_operator"}) = {}
        /\ \A k \in 1..Len(Emitted) : Emitted[k].op # "store_attr"
        /\ \A k \in 1..Len(Emitted) : Emitted[k].op \in {"store_fast", "store_attr", "store_map"}
              => /\ Emitted[k] = STORE_FAST(ret.frame.node.name)
                 /\ k = Len(Emitted) - 1
        /\ Emitted[Len(Emitted) - 1] = STORE_FAST(ret.frame.node.name)
        /\ ret.exit.class_stack = ret.frame.entry.class_stack
        /\ ret.exit.node_stack = ret.frame.entry.node_stack
        /\ ret.exit.bind_stack = ret.frame.entry.bind_stack
        /\ ret.exit.code_stack = ret.frame.entry.code_stack

\* A const StorageExpr with a declared type was compiled.
C7_Witness == ConstReturned /\ ret.frame.node.typename = "Str"

IsStatic(j) == ast[j].type = "StorageExpr" /\ ast[j].kind = "static"

\* The static and const StorageExprs that check the type of their value.
IsChecked(j) ==
    /\ ast[j].type = "StorageExpr"
    /\ ast[j].kind \in {"static", "const"}
    /\ ast[j].typename # ""

StaticItems == SelectSeq(Indices, IsStatic)

CheckedItems == SelectSeq(Indices, IsChecked)

\* The declaration whose type check raised.
Rejected == CheckedItems[Len(HelperCalls("type_check_expr")) + 1]

\* C8: add_static_attr receives the result of type_check_expr whenever the
\* static StorageExpr declares a type, and when a type check raises, the
\* declaration it belongs to has assigned nothing: the add_static_attr
\* calls made are those of the static declarations before it.
C8_TypeCheckBeforeAssignment ==
    status = "executed" =>
        /\ Len(HelperCalls("add_static_attr")) <= Len(StaticItems)
        /\ \A k \in 1..Len(HelperCalls("add_static_attr")) :
              LET item == ast[StaticItems[k]]
                  args == HelperCalls("add_static_attr")[k].args
              IN /\ args[2] = StrV(item.name)
                 /\ args[3].k = IF item.typename # "" THEN "checked" ELSE "value"
        /\ vm.err = "type_check_expr" =>
              /\ Len(HelperCalls("add_static_attr"))
                    = Cardinality({j \in 1..(Rejected - 1) : IsStatic(j)})
              /\ vm.attrs = <<>> \/ \A a \in 1..Len(vm.attrs) : vm.attrs[a].name = "__engine__"

\* The type check of the second of two static declarations raised after
\* the first was assigned.
C8_Witness ==
    /\ status = "executed"
    /\ vm.err = "type_check_expr"
    /\ Len(ast) = 3
    /\ IsStatic(2)
    /\ IsStatic(3)
    /\ Rejected = 3
    /\ Len(HelperCalls("add_static_attr")) = 1

\* The helpers the visitors load from fast slots.
VisitorHelpers == {"validate_declarative", "construct_node", "make_engine", "add_storage",
                   "add_static_attr", "type_check_expr", "run_operator"}

ScopeStores == {i \in 1..Len(code) : code[i] = STORE_FAST(scope_key)}

\* C9: the stream of a block whose traversal ended, by return or by an
\* error, holds the prologue once, ahead of everything
\* the visitors emit: the one store to the scope key comes before every
\* load of the scope key and every load of a helper by a visitor.
C9_PrologueFirst ==
    status \in {"visited", "error"} =>
        /\ Cardinality(ScopeStores) = 1
        /\ Cardinality({i \in 1..Len(code) : code[i].op = "store_helpers_to_fast"}) = 1
        /\ LET stored == CHOOSE p \in ScopeStores : TRUE
           IN \A i \in 1..Len(code) :
                 (\/ code[i].op = "set_lineno"
                  \/ code[i] = LOAD_FAST(scope_key)
                  \/ IsLoadHelper(code[i], VisitorHelpers))
                    => stored < i

\* A block with a nested ChildDef and a bound attribute was compiled.
C9_Witness ==
    /\ status = "visited"
    /\ Cardinality({i \in 1..Len(code) : code[i] = LOAD_FAST(scope_key)}) = 2
    /\ HelperLoads(code, {"run_operator"}) # {}

\* A node read so far names a type that load_name cannot resolve.
HasUnresolvable ==
    \E i \in 1..Len(ast) :
        ast[i].type \in {"ChildDef", "StorageExpr"} /\ ast[i].typename \in Unresolvable

\* C10 as stated: when a visitor raises, the stream holds no instruction of
\* the failed subtree and no code unit is produced.
C10_Original ==
    status = "error" =>
        /\ \A k \in (ret.frame.entry.code_len + 1)..Len(code) : code[k].op = "set_lineno"
        /\ unit = <<>>

\* C10 as amended: when load_name raises in a visitor the error reaches the
\* caller of the top-level visit at once, no visitor goes on, and no code
\* unit is produced or executed; the instructions emitted before the raise
\* stay in the stream.
C10_ErrorPropagates ==
    /\ HasUnresolvable => status = "error"
    /\ status = "error" =>
          /\ ret.how = "raise"
          /\ frames = <<>>
          /\ unit = <<>>
          /\ vm = NoVm
          /\ Len(code) = ret.exit.code_len
          /\ Len(code) > ret.frame.entry.code_len

\* load_name raised in a StorageExpr of a nested ChildDef.
C10_Witness ==
    /\ status = "error"
    /\ Len(ast) = 3
    /\ IsChildDef(2)
    /\ ast[3].type = "StorageExpr"
    /\ ast[3].parent = 2

(* The scope stacks. *)

\* The visitor calls that hold a name on bind_stack: visit_Binding, and
\* visit_StorageExpr while it visits its expression.
BindFrames == {i \in 1..Len(frames) : frames[i].fn \in {"Binding", "StorageExpr"}}

\* The class (node) variables of the active visit_ChildDef calls, outermost
\* first.
ClassVarsOnPath ==
    [k \in 1..Len(SelectSeq(frames, LAMBDA f : f.fn = "ChildDef")) |->
        SelectSeq(frames, LAMBDA f : f.fn = "ChildDef")[k].class_var]

NodeVarsOnPath ==
    [k \in 1..Len(SelectSeq(frames, LAMBDA f : f.fn = "ChildDef")) |->
        SelectSeq(frames, LAMBDA f : f.fn = "ChildDef")[k].node_var]

\* The names on bind_stack belong to the active calls that pushed them, in
\* order.
BindNamesOnPath ==
    [k \in 1..Len(SelectSeq(frames, LAMBDA f : f.fn \in {"Binding", "StorageExpr"})) |->
        SelectSeq(frames, LAMBDA f : f.fn \in {"Binding", "StorageExpr"})[k].node.name]

\* During the traversal each stack is what it was at the start (the block's
\* own class and node; no bind name) followed by one entry per active
\* visitor of its kind.
DepthIsNesting ==
    status \in {"compiling", "visited"} =>
        /\ Len(class_stack) = 1 + Cardinality(ChildDefFrames)
        /\ Len(node_stack) = 1 + Cardinality(ChildDefFrames)
        /\ Len(bind_stack) = Cardinality(BindFrames)
        /\ Tail(class_stack) = ClassVarsOnPath
        /\ Tail(node_stack) = NodeVarsOnPath
        /\ bind_stack = BindNamesOnPath

\* The last visitor call left the three stacks as it found them.
StacksAsOnEntry ==
    /\ ret.exit.class_stack = ret.frame.entry.class_stack
    /\ ret.exit.node_stack = ret.frame.entry.node_stack
    /\ ret.exit.bind_stack = ret.frame.entry.bind_stack

\* C11 as stated: the depths follow the nesting, and on exit of every
\* visitor, by return or by an error, the three stacks are what they were
\* on its entry; when an error has left the root visit_ChildDef the stacks
\* are those of its entry: the block's own class and node, no bind name.
C11_Original ==
    /\ DepthIsNesting
    /\ ret.how \in {"return", "raise"} => StacksAsOnEntry
    /\ status = "error" =>
          /\ Len(class_stack) = 1
          /\ Len(node_stack) = 1
          /\ bind_stack = <<>>

\* C11 as amended: the depths follow the nesting, and every visitor that
\* returns leaves the three stacks element for element as it found them; an
\* error pops nothing on its way out, so the stacks stay as the raising
\* visitor found them, the entries of its callers included.
C11_ScopeStacksFollowNesting ==
    /\ DepthIsNesting
    /\ ret.how = "return" => StacksAsOnEntry
    /\ status = "error" =>
          /\ class_stack = ret.frame.entry.class_stack
          /\ node_stack = ret.frame.entry.node_stack
          /\ bind_stack = ret.frame.entry.bind_stack
          /\ ret.frame.entry.callers >= 1 => Len(class_stack) >= 2

\* A Binding in a nested ChildDef is visiting its operator expression.
C11_Witness ==
    /\ status = "compiling"
    /\ Len(class_stack) = 3
    /\ Len(bind_stack) = 1
    /\ Len(frames) = 4
    /\ ret.how = "return"

(* The pending-expression stack. *)

\* Every expression read so far under a Binding or a default StorageExpr is
\* an operator expression on a host expression or a host block.
WellFormed ==
    \A i \in 1..Len(ast) :
        (ast[i].type \in {"Binding", "StorageExpr"} /\ ast[i].expr # NoExpr) =>
            /\ ast[i].expr.type = "OperatorExpr"
            /\ ast[i].expr.value.type \in {"PythonExpression", "PythonModule"}

\* The last call to return was a top-level visit of a bound expression: a
\* Binding, or a default StorageExpr that carries an expression.
BindingReturned ==
    /\ ret.how = "return"
    /\ ret.frame.fn \in {"Binding", "StorageExpr"}
    /\ ret.frame.node.expr # NoExpr
    /\ ret.frame.fn = "StorageExpr" => ret.frame.node.kind = "attr"

\* code_stack holds at most one entry; it holds one only between the push
\* by the visit of a host expression and the pop by the visit_OperatorExpr
\* that called it, and then it is that expression's code object; it is
\* empty when a top-level binding returns and when the traversal ends.
OneSlotRendezvous ==
    /\ Len(code_stack) <= 1
    /\ code_stack # <<>> =>
          /\ At("OperatorExpr", "ret")
          /\ code_stack = <<OwnCode(TopFrame.node)>>
          /\ ret.frame.fn \in {"PythonExpression", "PythonModule"}
    /\ At("OperatorExpr", "ret") => code_stack # <<>>
    /\ BindingReturned => ret.exit.code_stack = <<>>
    /\ status \in {"visited", "error"} => code_stack = <<>>

\* C12 as stated: for every AST the pending-expression stack is a one-slot
\* rendezvous.
C12_Original == OneSlotRendezvous

\* C12 as amended: the pending-expression stack is a one-slot rendezvous
\* for the ASTs in which every bound expression is an operator expression
\* on a host expression or block; a host expression placed directly under
\* a Binding is pushed and never popped.
C12_OneSlotRendezvous ==
    /\ WellFormed => OneSlotRendezvous
    /\ (ret.how = "return" /\ ret.frame.fn = "Binding"
           /\ ret.frame.node.expr.type = "PythonExpression") =>
          ret.exit.code_stack =
              Append(ret.frame.entry.code_stack, compile(ret.frame.node.expr.ast, "eval"))

\* A default StorageExpr with an operator expression returned after a
\* sibling Binding on a host block.
C12_Witness ==
    /\ WellFormed
    /\ BindingReturned
    /\ Len(ast) = 3
    /\ ast[2].type = "Binding"
    /\ ast[2].expr.value.type = "PythonModule"
    /\ ret.frame.fn = "StorageExpr"
    /\ ret.frame.n = 3

(* Reads of the stacks. *)

\* Wherever a visitor is about to pop a stack or read its top, the stack
\* holds the entry: in a body, the class of the enclosing ChildDef (lines
\* 169, 207) and, under its node, the node of its parent (lines 138-142);
\* after the visit of a value, its code object, the node and the bind name
\* (lines 279-284); after the visit of a bound expression, the bind name
\* (lines 183, 271).
NoEmptyRead ==
    /\ InBody => Len(class_stack) >= 1 /\ Len(node_stack) >= 2
    /\ At("OperatorExpr", "ret") =>
          /\ code_stack # <<>>
          /\ node_stack # <<>>
          /\ bind_stack # <<>>
    /\ (At("StorageExpr", "ret") \/ At("Binding", "ret")) => bind_stack # <<>>

\* C13: in the compilation of a well-formed AST no visitor pops or reads
\* the top of an empty stack, and an error that ends it is a name that
\* load_name could not resolve, raised before the visitor pushed anything.
C13_NoStructuralError ==
    WellFormed =>
        /\ NoEmptyRead
        /\ ret.how = "raise" =>
              /\ ret.err = "NameResolutionError"
              /\ ret.frame.fn \in {"ChildDef", "StorageExpr"}
              /\ ret.frame.node.typename \in Unresolvable
              /\ ret.exit.class_stack = ret.frame.entry.class_stack
              /\ ret.exit.bind_stack = ret.frame.entry.bind_stack

\* A well-formed block with an operator binding inside a nested ChildDef
\* was visited to the end.
C13_Witness ==
    /\ WellFormed
    /\ status = "visited"
    /\ Len(ast) = 3
    /\ IsChildDef(2)
    /\ ast[3].type = "Binding"
    /\ ast[3].parent = 2

(* Error-remapping regions. *)

IsSquash(ins) == ins.op \in {"setup_squash", "end_squash"}

\* The regions of `stream` are closed in the order they were opened, none
\* is left open: its region marks alternate, an opening first and a
\* closing last.
RegionsClosed(stream) ==
    LET marks == SelectSeq(stream, IsSquash)
    IN /\ Len(marks) % 2 = 0
       /\ \A k \in 1..Len(marks) :
             marks[k].op = IF k % 2 = 1 THEN "setup_squash" ELSE "end_squash"

\* The last visitor call raised inside its region.
RaisedInRegion ==
    /\ ret.how = "raise"
    /\ \E k \in 1..Len(Emitted) : Emitted[k].op = "setup_squash"

\* C14: whenever a visitor has exited, by return or by an error raised
\* inside its region, no region is open that was not open at its entry; an
\* error raised by load_name reaches the caller as that error, and at run
\* time a helper that raises inside a region ends the run with its error.
C14_RegionsClosedOnEveryExit ==
    /\ RegionsClosed(code)
    /\ ret.how \in {"return", "raise"} => RegionsClosed(Emitted)
    /\ HasUnresolvable => (status = "error" /\ ret.err = "NameResolutionError")
    /\ RaisedInRegion => (status = "error" /\ unit = <<>>)
    /\ (status = "executed" /\ vm.failAt > 0) =>
          (~vm.ok /\ vm.err \in Fallible \cup {"build_class"})

\* load_name raised inside the region of a static StorageExpr that follows
\* a default StorageExpr.
C14_Witness ==
    /\ RaisedInRegion
    /\ Len(ast) = 3
    /\ ast[2].type = "StorageExpr"
    /\ ast[2].kind = "attr"
    /\ ast[3].type = "StorageExpr"
    /\ ast[3].kind = "static"

(* The order of the steps of a ChildDef. *)

\* The positions of `stream` that hold the instruction `ins`.
Positions(stream, ins) == {i \in 1..Len(stream) : stream[i] = ins}

Least(S) == CHOOSE i \in S : \A j \in S : i <= j

\* The instructions a visit_ChildDef emits before it visits its body: those
\* ahead of the first set_lineno of a body item, or ahead of the append
\* when the body emits none.
HeadOf(stream) ==
    LET later == {i \in 2..Len(stream) : stream[i].op = "set_lineno"}
    IN SubSeq(stream, 1, IF later = {} THEN Len(stream) - 6 ELSE Least(later) - 1)

\* The steps of the head of `node` occur once each, in the order:
\* validation, subclass (when needed), store of the class, construct_node,
\* store of the node, engine (when needed) built from and stored on the
\* class variable.
HeadInOrder(head, node, class_var, node_var) ==
    LET validate == HelperLoads(head, {"validate_declarative"})
        subclass == {i \in 1..Len(head) : head[i].op = "build_class"}
        class == Positions(head, STORE_FAST(class_var))
        construct == HelperLoads(head, {"construct_node"})
        stored == Positions(head, STORE_FAST(node_var))
        engine == HelperLoads(head, {"make_engine"})
        attach == Positions(head, STORE_ATTR("__engine__"))
    IN /\ Cardinality(validate) = 1
       /\ Cardinality(class) = 1
       /\ Cardinality(construct) = 1
       /\ Cardinality(stored) = 1
       /\ Cardinality(subclass) = IF node.subclass THEN 1 ELSE 0
       /\ Cardinality(engine) = IF node.engine THEN 1 ELSE 0
       /\ Cardinality(attach) = Cardinality(engine)
       /\ \A v \in validate, c \in class, n \in construct, t \in stored :
             /\ v < c /\ c < n /\ n < t
             /\ \A b \in subclass : v < b /\ b < c
             /\ \A e \in engine, a \in attach :
                   /\ t < e /\ e < a /\ a = Len(head)
                   /\ head[e + 1] = LOAD_FAST(class_var)
                   /\ head[a - 1] = LOAD_FAST(class_var)
             /\ engine = {} => t = Len(head)

\* The ChildDef with the given rank among the ChildDefs read.
ChildDefOfRank(r) == CHOOSE i \in 1..Len(ast) : IsChildDef(i) /\ Rank(i) = r

\* The ChildDefs that ask for an engine, up to rank r.
EnginesUpTo(r) == {i \in 1..Len(ast) : IsChildDef(i) /\ ast[i].engine /\ Rank(i) <= r}

\* The engine attachments made are those of the first r ChildDefs: each
\* engine was built from the class the ChildDef's node was constructed
\* from, a subclass when one was made, and stored on that class.
EnginesAttached(r) ==
    /\ Len(vm.attrs) = Cardinality(EnginesUpTo(r))
    /\ \A i \in EnginesUpTo(r) :
          LET a == vm.attrs[Cardinality(EnginesUpTo(Rank(i)))]
          IN /\ a.name = "__engine__"
             /\ a.obj = vm.nodes[Rank(i)].class
             /\ a.obj.k = IF ast[i].subclass THEN "subclass" ELSE "global"
             /\ a.value = Val("engine", a.obj.v, a.obj.n)

\* C15: the stream of every returned visit_ChildDef holds its steps in the
\* order validation, subclass, class store, construct_node, node store,
\* engine, body, append; when validation or the creation of the subclass
\* raises at run time, no engine was attached for that ChildDef, and every
\* engine attached was built from and stored on the class of its ChildDef.
C15_ChildDefStepsInOrder ==
    /\ (JustReturned /\ ret.frame.fn = "ChildDef") =>
          LET head == HeadOf(Emitted)
          IN /\ HeadInOrder(head, ret.frame.node, ret.frame.class_var, ret.frame.node_var)
             /\ Len(Emitted) >= Len(head) + 6
             /\ Emitted[Len(Emitted) - 3] = LOAD_ATTR("append")
             /\ Emitted[Len(Emitted) - 2] = LOAD_FAST(ret.frame.node_var)
             /\ \A k \in (Len(head) + 1)..(Len(Emitted) - 6) :
                   Emitted[k] # STORE_FAST(ret.frame.class_var)
    /\ Completed => EnginesAttached(Rank(Len(ast)))
    /\ (status = "executed" /\ vm.err \in {"validate_declarative", "build_class"}) =>
          EnginesAttached(Len(HelperCalls("validate_declarative"))
                            - (IF vm.err = "build_class" THEN 1 ELSE 0))

\* The creation of the subclass of a nested ChildDef that also asks for an
\* engine raised, after the engine of the root was attached.
C15_Witness ==
    /\ status = "executed"
    /\ vm.err = "build_class"
    /\ Len(ast) >= 2
    /\ ast[1].engine
    /\ IsChildDef(2)
    /\ ast[2].subclass
    /\ ast[2].engine
    /\ Len(vm.attrs) = 1

(* The operand stack. *)

\* What each instruction with a fixed effect takes off the operand stack,
\* must find on it, and puts on it.
Effects ==
    [load_const |-> <<0, 0, 1>>,
     load_fast |-> <<0, 0, 1>>,
     load_helper_from_fast |-> <<0, 0, 1>>,
     load_globals_from_fast |-> <<0, 0, 1>>,
     load_name |-> <<0, 0, 1>>,
     load_global |-> <<0, 0, 1>>,
     build_map |-> <<0, 0, 1>>,
     dup_top |-> <<0, 1, 1>>,
     rot_two |-> <<0, 2, 0>>,
     pop_top |-> <<1, 1, 0>>,
     store_fast |-> <<1, 1, 0>>,
     load_attr |-> <<1, 1, 1>>,
     make_function |-> <<1, 1, 1>>,
     store_attr |-> <<2, 2, 0>>,
     store_map |-> <<2, 3, 0>>,
     build_class |-> <<3, 3, 1>>,
     set_lineno |-> <<0, 0, 0>>,
     setup_squash |-> <<0, 0, 0>>,
     end_squash |-> <<0, 0, 0>>,
     store_globals_to_fast |-> <<0, 0, 0>>,
     store_helpers_to_fast |-> <<0, 0, 0>>]

\* The values an instruction takes off the operand stack: a call takes its
\* callable and its arguments, a tuple its items.
Pops(ins) ==
    IF ins.op = "call_function" THEN ins.arg.n + 1
    ELSE IF ins.op = "build_tuple" THEN ins.arg.n
    ELSE Effects[ins.op][1]

\* The values an instruction must find on the operand stack.
Needs(ins) ==
    IF ins.op \in {"call_function", "build_tuple"} THEN Pops(ins)
    ELSE Effects[ins.op][2]

\* The values an instruction puts on the operand stack.
Pushes(ins) ==
    IF ins.op \in {"call_function", "build_tuple"} THEN 1
    ELSE Effects[ins.op][3]

RECURSIVE DepthAfter(_, _, _)
\* The depth of the operand stack after the instructions i..last of the
\* stream, started at depth d; -1 when an instruction finds fewer values
\* than it needs.
DepthAfter(i, last, d) ==
    IF i > last THEN d
    ELSE IF d < Needs(code[i]) THEN -1
    ELSE DepthAfter(i + 1, last, d - Pops(code[i]) + Pushes(code[i]))

\* C16: the instructions of every visitor that returned take the operand
\* stack from its depth back to that depth without going below it, every
\* call finding its callable and arguments; executed, the stream never
\* underflows nor calls a value that is not callable, and a run that
\* completes leaves the operand stack empty.
C16_ZeroNetStackEffect ==
    /\ JustReturned => DepthAfter(ret.frame.entry.code_len + 1, ret.exit.code_len, 0) = 0
    /\ status = "visited" => DepthAfter(1, Len(code), 0) = 0
    /\ status = "executed" =>
          /\ vm.err \in {""} \cup Fallible \cup {"build_class"}
          /\ vm.ok => vm.stack = <<>>

\* A block whose root needs a subclass and an engine and holds a typed
\* const on two locals and a typed static on one was executed.
C16_Witness ==
    /\ Completed
    /\ Len(ast) = 3
    /\ ast[1].subclass
    /\ ast[1].engine
    /\ ast[2].type = "StorageExpr"
    /\ ast[2].kind = "const"
    /\ ast[2].expr.value.ast = "x + y"
    /\ ast[3].type = "StorageExpr"
    /\ ast[3].kind = "static"
    /\ ast[3].expr.value.ast = "x"
    /\ Len(HelperCalls("type_check_expr")) = 2

(* Reads of the class and node variables. *)

\* The default and the static StorageExpr items, in source order.
IsDefault(j) == ast[j].type = "StorageExpr" /\ ast[j].kind = "attr"

DefaultItems == SelectSeq(Indices, IsDefault)

\* The class that the node of ChildDef i was constructed from.
ClassOf(i) == vm.nodes[Rank(i)].class

\* The variables the pool has handed out.
IsPoolVar(ins) == \E k \in 0..(var_pool.issued - 1) : ins.arg = StrV(VarName(k))

\* The calls of `name` read the class variable of the ChildDef that
\* encloses the item they were emitted for.
ReadsEnclosingClass(name, items) ==
    /\ Len(HelperCalls(name)) = Len(items)
    /\ \A k \in 1..Len(items) :
          HelperCalls(name)[k].args[1] = ClassOf(ast[items[k]].parent)

\* The append calls made: each a pair (node appended to, node appended).
Appended ==
    {<<vm.calls[k].fn.n, vm.calls[k].args[1].n>> : k \in AppendCalls}

\* C17: in the stream of a traversal that ended, by return or by an error,
\* every load of a pool variable follows a store to it,
\* and executed, every load reads the value stored by the ChildDef that
\* held the variable when the load was emitted: add_storage,
\* add_static_attr and make_engine get the class of the enclosing ChildDef,
\* run_operator gets its node, and each ChildDef appends its own node to
\* the node of its parent, also after a nested ChildDef or a sibling has
\* reused names.
C17_NoStaleSlotRead ==
    /\ status \in {"visited", "error"} =>
          \A i \in 1..Len(code) :
              (code[i].op = "load_fast" /\ IsPoolVar(code[i])) =>
                  \E j \in 1..(i - 1) : code[j] = STORE_FAST(code[i].arg.v)
    /\ Completed =>
          /\ ReadsEnclosingClass("add_storage", DefaultItems)
          /\ ReadsEnclosingClass("add_static_attr", StaticItems)
          /\ \A k \in 1..Len(HelperCalls("run_operator")) :
                HelperCalls("run_operator")[k].args[1]
                    = Val("node", ConstV(ast[ast[OperatorItems[k]].parent].identifier).v,
                          Rank(ast[OperatorItems[k]].parent))
          /\ \A k \in 1..Len(HelperCalls("make_engine")) :
                \E i \in 1..Len(ast) :
                    /\ IsChildDef(i)
                    /\ ast[i].engine
                    /\ Cardinality(EnginesUpTo(Rank(i))) = k
                    /\ HelperCalls("make_engine")[k].args[1] = ClassOf(i)
          /\ Appended = {<<IF ast[i].parent = 0 THEN 0 ELSE Rank(ast[i].parent), Rank(i)>> :
                            i \in {j \in 1..Len(ast) : IsChildDef(j)}}

\* A default StorageExpr of a root with a synthesized subclass follows a
\* nested ChildDef with a subclass of its own.
C17_Witness ==
    /\ Completed
    /\ Len(ast) = 3
    /\ ast[1].subclass
    /\ IsChildDef(2)
    /\ ast[2].subclass
    /\ IsDefault(3)
    /\ ast[3].parent = 1
    /\ HelperCalls("add_storage")[1].args[1] = Val("subclass", "Label", 1)

====
